---- MODULE Spec2Model ----
(***************************************************************************)
(* ROMuLess: language sorter for ROM libraries.                            *)
(*                                                                         *)
(* The filesystem below the operation root is the state.  A directory is a *)
(* sequence of folder names relative to the root (<<>> is the root), a     *)
(* file is a record [dir, stem, ext]: the folder it lies in, the words of  *)
(* its stem (the maximal runs of word characters, in order, as a release   *)
(* name such as "Game (Europe, En)" has them) and its extension.  Folder   *)
(* names carry no extension and file names do, so a file path never equals *)
(* a directory path.                                                       *)
(*                                                                         *)
(* One invocation of main() is: Start, then one step per directory that    *)
(* os.walk scans and one step per file of the listing, then AfterRun       *)
(* (cleanup gating), the sweep steps, and the write of the log.            *)
(***************************************************************************)
EXTENDS Integers, Sequences, FiniteSets, TLC

MovedName == "Moved ROMS"

\* Bounds of the model.
MaxFiles == 3
MaxRuns == 2
MaxStem == 3

(***************************************************************************)
(* The files an initial tree is drawn from.                                *)
(***************************************************************************)
Universe ==
    << [dir |-> <<>>,                 stem |-> <<"Game", "Japan">>,        ext |-> ".bin"],
       [dir |-> <<"A">>,              stem |-> <<"Game", "Japan">>,        ext |-> ".bin"],
       [dir |-> <<MovedName, "A">>,   stem |-> <<"Game", "Japan">>,        ext |-> ".bin"],
       [dir |-> <<"A">>,              stem |-> <<"Game">>,                 ext |-> ".BIN"],
       [dir |-> <<MovedName>>,        stem |-> <<"Game">>,                 ext |-> ".bin"],
       [dir |-> <<"A">>,              stem |-> <<"Game", "USA">>,          ext |-> ".bin"],
       [dir |-> <<MovedName, "A">>,   stem |-> <<"notes">>,                ext |-> ".txt"],
       [dir |-> <<MovedName, MovedName>>, stem |-> <<"Game", "Japan">>,    ext |-> ".bin"],
       [dir |-> <<"A", "B">>,         stem |-> <<"Game", "En", "Europe">>, ext |-> ".bin"],
       [dir |-> <<MovedName, MovedName, "A">>, stem |-> <<"Game", "USA">>, ext |-> ".bin"] >>

Cmd(l, r, m, c, k) ==
    [langs |-> l, remerge |-> r, move |-> m, cleanup |-> c, keep |-> k]

\* The command lines tried: every mode dry and live, with and without
\* --cleanup, and --langs with and without --remerge beside it.  --keep is the
\* default ["en"], the flag with nothing after it, or a list in the user's own
\* letter case.
ArgSpace ==
    { Cmd(FALSE, FALSE, m, c, <<"en">>) : m \in BOOLEAN, c \in BOOLEAN }
    \cup { Cmd(FALSE, FALSE, m, FALSE, <<"JP">>) : m \in BOOLEAN }
    \cup { Cmd(FALSE, FALSE, TRUE, FALSE, k) : k \in { <<>>, <<"EN", "jp">> } }
    \cup { Cmd(FALSE, TRUE, TRUE, c, k) : c \in BOOLEAN, k \in { <<"en">>, <<>>, <<"JP">> } }
    \cup { Cmd(FALSE, TRUE, FALSE, TRUE, <<>>), Cmd(FALSE, TRUE, FALSE, FALSE, <<"en">>),
           Cmd(FALSE, TRUE, TRUE, FALSE, <<"EN", "jp">>) }
    \cup { Cmd(TRUE, FALSE, FALSE, FALSE, <<"en">>), Cmd(TRUE, TRUE, TRUE, TRUE, <<>>) }

NoArgs == [langs |-> FALSE, remerge |-> FALSE, move |-> FALSE, cleanup |-> FALSE,
           keep |-> <<"en">>]

\* The language codes the decision rules are tried on as pure functions.
DecideTags == {"en", "jp", "multi", "eu"}

\* The words of the stems detect_languages is tried on as a pure function: the
\* Europe tokens, the English tokens, and two words beside them.
StemWords == {"Game", "Japan", "EUR", "Europe", "EU", "En", "Eng", "English"}

VARIABLES
    files,          \* file identity -> its current path; an overwritten file leaves the domain
    dirs,           \* the directories that exist
    runs,           \* invocations started so far
    pc,             \* "idle" | "walk" | "after" | "sweep" | "done" | "crashed"
    args,           \* the parsed command line of the current invocation
    mode,           \* "SORT" | "REMERGE" | "LANGS" | "NONE"
    keep_langs,     \* the effective keep set
    frames,         \* os.walk: per level, the listed subdirectories not walked yet
    pending,        \* os.walk: the files of the current listing not iterated yet
    entries,        \* the decision lines built so far (keep/move/remerge/skip entries)
    counts,         \* kept_count, moved_count, moved_back_count, skipped_count
    folder_lang_counts, \* do_langs_report: <<top-level folder, label>> -> count
    total_counts,   \* do_langs_report: label -> count
    sstack,         \* cleanup_empty_dirs: the bottom-up walk's open directories
    removed,        \* cleanup_empty_dirs: the returned list
    rm_errors,      \* cleanup_empty_dirs: the os.rmdir errors swallowed, in order
    log_written,    \* main: the log file of this invocation was written
    files0,         \* the files when the current invocation started
    dirs0,          \* the directories when the current invocation started
    prev,           \* the previous invocation: its mode, keep set, flags, outcome
    d_tags, d_keep, d_out,  \* inputs and result of a decision rule applied on its own
    d_stem          \* the stem detect_languages is applied to on its own

vars == << files, dirs, runs, pc, args, mode, keep_langs, frames, pending, entries,
           counts, folder_lang_counts, total_counts, sstack, removed, rm_errors,
           log_written, files0, dirs0, prev, d_tags, d_keep, d_out, d_stem >>

fsvars == << files, dirs >>
walkvars == << frames, pending >>
decidevars == << d_tags, d_keep, d_out, d_stem >>

(***************************************************************************)
(* Paths                                                                   *)
(***************************************************************************)
Range(f) == { f[x] : x \in DOMAIN f }

IsPrefix(p, q) == Len(p) <= Len(q) /\ SubSeq(q, 1, Len(p)) = p

MovedRoot == << MovedName >>

\* A faulty variant of UnderMoved: only the direct children of "Moved ROMS".
UnderMovedDirectOnly(f) == f.dir = MovedRoot

\* os.path.commonpath([abs_path, moved_root_abs]) == moved_root_abs
UnderMoved(f) == IsPrefix(MovedRoot, f.dir)

Ancestors(d) == { SubSeq(d, 1, k) : k \in 0..Len(d) }

Exists(p) == \E i \in DOMAIN files : files[i] = p

IdAt(p) == CHOOSE i \in DOMAIN files : files[i] = p

FilesIn(d) == { p \in Range(files) : p.dir = d }

SubdirsOf(d) == { e \in dirs : Len(e) = Len(d) + 1 /\ IsPrefix(d, e) }

(***************************************************************************)
(* str.lower() and re.IGNORECASE, on the words and extensions of the model *)
(***************************************************************************)
Lower(w) ==
    CASE w = "JP" -> "jp"
      [] w = "EN" -> "en"
      [] w = ".BIN" -> ".bin"
      [] w = "Game" -> "game"
      [] w = "Japan" -> "japan"
      [] w = "USA" -> "usa"
      [] w = "En" -> "en"
      [] w = "Europe" -> "europe"
      [] w = "Multi5" -> "multi5"
      [] w = "Eng" -> "eng"
      [] w = "English" -> "english"
      [] w = "EUR" -> "eur"
      [] w = "EU" -> "eu"
      [] OTHER -> w

ROM_EXTENSIONS ==
    { ".a26", ".a52", ".a78",
      ".nes", ".fds", ".sfc", ".smc", ".gb", ".gbc", ".gba",
      ".nds", ".dsi", ".3ds", ".cia",
      ".n64", ".z64", ".v64",
      ".sms", ".gg", ".sg", ".sgx",
      ".md", ".smd", ".gen", ".32x", ".meg", ".bin", ".rom",
      ".pce",
      ".neo", ".ngp", ".ngc", ".ngpc",
      ".cue", ".iso", ".chd", ".gdi", ".cdi",
      ".mdf", ".mds", ".nrg",
      ".cso", ".pbp",
      ".vpk", ".psv", ".psvita",
      ".nsp", ".xci",
      ".zip", ".7z", ".7zip", ".rar",
      ".adf", ".d64", ".tap", ".tzx" }

IsRom(f) == Lower(f.ext) \in ROM_EXTENSIONS

(***************************************************************************)
(* Language detection.  A pattern \b(w1|w2|...)\b is a search for one of   *)
(* the words; the patterns in other scripts than the Latin one match no    *)
(* stem of the model and are left out.                                     *)
(***************************************************************************)
HasWord(stem, ws) == \E i \in 1..Len(stem) : Lower(stem[i]) \in ws

\* \b(a)\b.*\b(b)\b : a word of as, and later a word of bs
HasWordThen(stem, as, bs) ==
    \E i \in 1..Len(stem) : \E j \in 1..Len(stem) :
        i < j /\ Lower(stem[i]) \in as /\ Lower(stem[j]) \in bs

\* \b(a)\b(?!.*\b(b)\b) : a word of as with no word of bs after it
HasWordNotThen(stem, as, bs) ==
    \E i \in 1..Len(stem) :
        /\ Lower(stem[i]) \in as
        /\ ~ \E j \in 1..Len(stem) : i < j /\ Lower(stem[j]) \in bs

EnglishWords == {"en", "eng", "english"}

LangCodes == {"en", "jp", "fr", "de", "es", "it", "pt", "ru", "ko", "zh", "multi", "eu"}

LANGUAGE_PATTERNS(lang_code, stem) ==
    CASE lang_code = "en" ->
            \/ HasWord(stem, {"usa", "u"})
            \/ HasWord(stem, EnglishWords)
            \/ HasWordThen(stem, {"europe"}, EnglishWords)
            \/ HasWord(stem, {"world"})
            \/ \E i \in 1..(Len(stem) - 1) :
                  /\ Lower(stem[i]) = "usa" /\ Lower(stem[i + 1]) = "europe"
                  /\ \E j \in 1..Len(stem) : i + 1 < j /\ Lower(stem[j]) = "en"
      [] lang_code = "jp" -> HasWord(stem, {"jpn", "japan", "j"})
      [] lang_code = "fr" -> HasWord(stem, {"fr", "fra", "french", "francais"})
      [] lang_code = "de" -> HasWord(stem, {"de", "ger", "german", "deutsch"})
      [] lang_code = "es" -> HasWord(stem, {"es", "spa", "spanish", "espanol", "castellano"})
      [] lang_code = "it" -> HasWord(stem, {"ita", "it", "italian", "italiano"})
      [] lang_code = "pt" -> HasWord(stem, {"pt", "portugues", "brazil", "br"})
      [] lang_code = "ru" -> HasWord(stem, {"ru", "rus", "russian"})
      [] lang_code = "ko" -> HasWord(stem, {"kor", "korea", "korean"})
      [] lang_code = "zh" -> HasWord(stem, {"chn", "china", "chinese"})
      [] lang_code = "multi" -> HasWord(stem, {"multi5", "multi3", "m5", "m3"})
      [] lang_code = "eu" -> HasWordNotThen(stem, {"eur", "europe", "eu"}, EnglishWords)

\* A faulty variant of detect_languages: the "multi" patterns are not tried.
detect_languages_without_multi(filename_no_ext) ==
    { lang_code \in LangCodes \ {"multi"} : LANGUAGE_PATTERNS(lang_code, filename_no_ext) }

detect_languages(filename_no_ext) ==
    { lang_code \in LangCodes : LANGUAGE_PATTERNS(lang_code, filename_no_ext) }

(***************************************************************************)
(* Decision rules                                                          *)
(***************************************************************************)
\* A faulty variant of should_keep: a file with no tags is kept only with "en".
should_keep_unknowns_moved(detected_langs, keep_langs_) ==
    IF detected_langs # {}
    THEN \E lang \in detected_langs : lang \in keep_langs_
    ELSE "en" \in keep_langs_

\* A faulty variant of should_keep: only a file with no tags is kept.
should_keep_untagged_only(detected_langs, keep_langs_) == detected_langs = {}

should_keep(detected_langs, keep_langs_) ==
    IF detected_langs # {}
    THEN \E lang \in detected_langs : lang \in keep_langs_
    ELSE IF "en" \in keep_langs_ THEN TRUE ELSE TRUE

\* A faulty variant of allow_back: the empty keep set is not "all languages".
allow_back_empty_means_none(langs, keep_langs_) ==
    IF langs # {}
    THEN \E lang \in langs : lang \in keep_langs_
    ELSE "en" \in keep_langs_

\* A faulty variant of allow_back: a file with no tags always comes back.
allow_back_unknown_always(langs, keep_langs_) ==
    IF Cardinality(keep_langs_) = 0
    THEN TRUE
    ELSE IF langs # {}
         THEN \E lang \in langs : lang \in keep_langs_
         ELSE TRUE

\* do_remerge, the computation of allow_back
allow_back(langs, keep_langs_) ==
    IF Cardinality(keep_langs_) = 0
    THEN TRUE
    ELSE IF langs # {}
         THEN \E lang \in langs : lang \in keep_langs_
         ELSE "en" \in keep_langs_

(***************************************************************************)
(* Relocation                                                              *)
(***************************************************************************)
ensure_parent_dir(path) == dirs \cup Ancestors(path.dir)

RECURSIVE ProbeCounter(_, _)
ProbeCounter(dest_full_path, counter) ==
    LET candidate == [dest_full_path EXCEPT
                         !.stem = dest_full_path.stem \o << ToString(counter) >>]
    IN  IF Exists(candidate)
        THEN ProbeCounter(dest_full_path, counter + 1)
        ELSE candidate

\* A faulty variant of unique_destination_path: the planned path, taken or not.
unique_destination_path_no_probe(dest_full_path) == dest_full_path

unique_destination_path(dest_full_path) ==
    IF ~ Exists(dest_full_path)
    THEN dest_full_path
    ELSE ProbeCounter(dest_full_path, 1)

plan_dest_paths_for_sort(rel_path) ==
    [rel_path EXCEPT !.dir = MovedRoot \o rel_path.dir]

\* A faulty variant of RelFromMoved: the file name alone, without its folders.
RelFromMovedFlat(f) == [f EXCEPT !.dir = << >>]

\* os.path.relpath(abs_path, moved_root)
RelFromMoved(f) == [f EXCEPT !.dir = Tail(f.dir)]

plan_dest_paths_for_remerge(rel_from_moved) == rel_from_moved

\* shutil.move(src, dst) of a file onto a file path: a rename, which replaces
\* a file that is at dst.
ShutilMove(src, dst) ==
    LET id == IdAt(src)
        lost == { k \in DOMAIN files : k # id /\ files[k] = dst }
    IN  [ j \in (DOMAIN files) \ lost |-> IF j = id THEN dst ELSE files[j] ]

(***************************************************************************)
(* main(): mode and keep set                                               *)
(***************************************************************************)
\* A faulty variant of ModeOf: --remerge is looked at before --langs.
ModeOfRemergeFirst(a) ==
    IF a.remerge THEN "REMERGE" ELSE IF a.langs THEN "LANGS" ELSE "SORT"

ModeOf(a) ==
    LET mode_langs == a.langs
        mode_remerge == a.remerge /\ ~ mode_langs
    IN  IF mode_langs THEN "LANGS" ELSE IF mode_remerge THEN "REMERGE" ELSE "SORT"

LowerAll(keep) == { Lower(keep[i]) : i \in 1..Len(keep) }

KeepLangsOf(a) ==
    LET explicit_keep_empty == (a.keep = << >>)
    IN  CASE ModeOf(a) = "LANGS" ->
                IF explicit_keep_empty THEN {} ELSE LowerAll(a.keep)
          [] ModeOf(a) = "REMERGE" ->
                IF explicit_keep_empty THEN {} ELSE LowerAll(a.keep)
          [] OTHER ->
                IF explicit_keep_empty THEN {"en"} ELSE LowerAll(a.keep)

ZeroCounts == [kept |-> 0, moved |-> 0, back |-> 0, skipped |-> 0]

EmptyCounter == [k \in {} |-> 0]

NoPrev == [mode |-> "NONE", keep |-> {}, move |-> FALSE, ok |-> FALSE,
           files |-> EmptyCounter, decisions |-> {}, counts |-> ZeroCounts]

\* The report of an invocation, as far as it tells what was decided: per file
\* the decision line's path, tags and planned destination.
Decisions(es) == { [rel |-> e.rel, langs |-> e.langs, dec |-> e.dec, dest |-> e.dest] : e \in es }

RECURSIVE DropEmpty(_)
DropEmpty(fr) ==
    IF fr # << >> /\ Head(fr) = {} THEN DropEmpty(Tail(fr)) ELSE fr

(***************************************************************************)
(* Initial states: a tree of at most MaxFiles files of the universe, with  *)
(* the directories that hold them.                                         *)
(***************************************************************************)
Init ==
    /\ \E S \in SUBSET (1..Len(Universe)) :
          /\ Cardinality(S) <= MaxFiles
          /\ files = [i \in S |-> Universe[i]]
    /\ dirs = UNION { Ancestors(files[i].dir) : i \in DOMAIN files } \cup { << >> }
    /\ runs = 0
    /\ pc = "idle"
    /\ args = NoArgs
    /\ mode = "NONE"
    /\ keep_langs = {}
    /\ frames = << >>
    /\ pending = {}
    /\ entries = {}
    /\ counts = ZeroCounts
    /\ folder_lang_counts = EmptyCounter
    /\ total_counts = EmptyCounter
    /\ sstack = << >>
    /\ removed = << >>
    /\ rm_errors = << >>
    /\ log_written = FALSE
    /\ files0 = files
    /\ dirs0 = dirs
    /\ prev = NoPrev
    /\ d_tags = {}
    /\ d_keep = {}
    /\ d_out = "none"
    /\ d_stem = << >>

\* A faulty variant of MovedRootIsDir: the directory is taken to be there.
MovedRootIsDirAlways == TRUE

\* do_remerge: os.path.isdir(moved_root)
MovedRootIsDir == MovedRoot \in dirs

(***************************************************************************)
(* main(): parse the command line, pick the mode, enter the mode's walk.   *)
(* do_remerge returns at once when the moved-aside directory is missing.   *)
(***************************************************************************)
Start(a) ==
    /\ pc \in {"idle", "done", "crashed"}
    /\ runs < MaxRuns
    /\ runs' = runs + 1
    /\ args' = a
    /\ mode' = ModeOf(a)
    /\ keep_langs' = KeepLangsOf(a)
    /\ prev' = IF pc = "idle" THEN prev
               ELSE [mode |-> mode, keep |-> keep_langs, move |-> args.move,
                     ok |-> (pc = "done"), files |-> files0,
                     decisions |-> Decisions(entries), counts |-> counts]
    /\ files0' = files
    /\ dirs0' = dirs
    /\ entries' = {}
    /\ counts' = ZeroCounts
    /\ folder_lang_counts' = EmptyCounter
    /\ total_counts' = EmptyCounter
    /\ sstack' = << >>
    /\ removed' = << >>
    /\ rm_errors' = << >>
    /\ log_written' = FALSE
    /\ pending' = {}
    /\ IF ModeOf(a) = "REMERGE"
       THEN IF MovedRootIsDir
            THEN pc' = "walk" /\ frames' = << {MovedRoot} >>
            ELSE pc' = "after" /\ frames' = << >>
       ELSE pc' = "walk" /\ frames' = << {<< >>} >>
    /\ UNCHANGED << fsvars, decidevars >>

(***************************************************************************)
(* os.walk, top down: scan the next directory.  Its listing is taken now;  *)
(* its subdirectories are walked after its files have been iterated.  A    *)
(* directory that cannot be scanned is passed over.                        *)
(***************************************************************************)
ScanDir ==
    /\ pc = "walk"
    /\ pending = {}
    /\ frames # << >>
    /\ \E d \in Head(frames) :
          LET rest == << Head(frames) \ {d} >> \o Tail(frames)
          IN  IF d \in dirs
              THEN /\ pending' = FilesIn(d)
                   /\ frames' = DropEmpty(<< SubdirsOf(d) >> \o rest)
              ELSE /\ pending' = {}
                   /\ frames' = DropEmpty(rest)
    /\ UNCHANGED << fsvars, runs, pc, args, mode, keep_langs, entries, counts,
                    folder_lang_counts, total_counts, sstack, removed, rm_errors, log_written,
                    files0, dirs0, prev, decidevars >>

\* A faulty variant of do_move: the flag is not looked at.
do_move_always == TRUE

\* main() hands args.move to the mode function as do_move
do_move == args.move

\* A faulty variant of Yields: include_moved is not looked at.
YieldsMovedToo(f, include_moved) == IsRom(f)

\* collect_roms: the file is yielded
Yields(f, include_moved) ==
    /\ IsRom(f)
    /\ (include_moved \/ ~ UnderMoved(f))

Entry(f, langs, dec, dest, final) ==
    [rel |-> f, langs |-> langs, dec |-> dec, dest |-> dest, final |-> final]

IncAll(counter, keys) ==
    [ k \in (DOMAIN counter) \cup keys |->
        (IF k \in DOMAIN counter THEN counter[k] ELSE 0) + (IF k \in keys THEN 1 ELSE 0) ]

(***************************************************************************)
(* collect_roms / do_remerge: a file of the listing that is not yielded    *)
(* (not a ROM extension, or under "Moved ROMS" in a Sort or Report pass).  *)
(***************************************************************************)
SkipFile ==
    /\ pc = "walk"
    /\ \E f \in pending :
          /\ ~ Yields(f, mode = "REMERGE")
          /\ pending' = pending \ {f}
    /\ UNCHANGED << fsvars, runs, pc, args, mode, keep_langs, frames, entries, counts,
                    folder_lang_counts, total_counts, sstack, removed, rm_errors, log_written,
                    files0, dirs0, prev, decidevars >>

(***************************************************************************)
(* do_sort: one iteration of the loop                                      *)
(***************************************************************************)
SortFile ==
    /\ pc = "walk"
    /\ mode = "SORT"
    /\ \E f \in pending :
          LET langs == detect_languages(f.stem)
              keep_it == should_keep(langs, keep_langs)
              dest == plan_dest_paths_for_sort(f)
              final_abs_dest == unique_destination_path(dest)
          IN  /\ Yields(f, FALSE)
              /\ pending' = pending \ {f}
              /\ IF keep_it
                 THEN /\ counts' = [counts EXCEPT !.kept = @ + 1]
                      /\ entries' = entries \cup {Entry(f, langs, "KEEP", f, f)}
                      /\ UNCHANGED fsvars
                 ELSE /\ counts' = [counts EXCEPT !.moved = @ + 1]
                      /\ IF do_move
                         THEN /\ Exists(f)
                              /\ entries' = entries \cup
                                    {Entry(f, langs, "MOVE", dest, final_abs_dest)}
                              /\ dirs' = ensure_parent_dir(dest)
                              /\ files' = ShutilMove(f, final_abs_dest)
                         ELSE /\ entries' = entries \cup {Entry(f, langs, "MOVE", dest, f)}
                              /\ UNCHANGED fsvars
    /\ UNCHANGED << runs, pc, args, mode, keep_langs, frames, folder_lang_counts,
                    total_counts, sstack, removed, rm_errors, log_written, files0, dirs0, prev,
                    decidevars >>

(***************************************************************************)
(* do_remerge: one iteration of the loop                                   *)
(***************************************************************************)
RemergeFile ==
    /\ pc = "walk"
    /\ mode = "REMERGE"
    /\ \E f \in pending :
          LET rel_from_moved == RelFromMoved(f)
              dest == plan_dest_paths_for_remerge(rel_from_moved)
              langs == detect_languages(f.stem)
              final_abs_dest == unique_destination_path(dest)
          IN  /\ Yields(f, TRUE)
              /\ pending' = pending \ {f}
              /\ IF allow_back(langs, keep_langs)
                 THEN /\ counts' = [counts EXCEPT !.back = @ + 1]
                      /\ IF do_move
                         THEN /\ Exists(f)
                              /\ entries' = entries \cup
                                    {Entry(f, langs, "RESTORE", dest, final_abs_dest)}
                              /\ dirs' = ensure_parent_dir(dest)
                              /\ files' = ShutilMove(f, final_abs_dest)
                         ELSE /\ entries' = entries \cup {Entry(f, langs, "RESTORE", dest, f)}
                              /\ UNCHANGED fsvars
                 ELSE /\ counts' = [counts EXCEPT !.skipped = @ + 1]
                      /\ entries' = entries \cup {Entry(f, langs, "SKIP", f, f)}
                      /\ UNCHANGED fsvars
    /\ UNCHANGED << runs, pc, args, mode, keep_langs, frames, folder_lang_counts,
                    total_counts, sstack, removed, rm_errors, log_written, files0, dirs0, prev,
                    decidevars >>

(***************************************************************************)
(* A live move raises in shutil.move (permissions, a vanished source).     *)
(* Nothing catches it: the invocation ends there.  The entry was           *)
(* appended before the move; moved_count was counted before it and         *)
(* moved_back_count is counted after it.                                   *)
(***************************************************************************)
MoveRaises ==
    /\ pc = "walk"
    /\ mode \in {"SORT", "REMERGE"}
    /\ do_move
    /\ \E f \in pending :
          LET langs == detect_languages(f.stem)
              dest == IF mode = "SORT" THEN plan_dest_paths_for_sort(f)
                      ELSE plan_dest_paths_for_remerge(RelFromMoved(f))
          IN  /\ Yields(f, mode = "REMERGE")
              /\ IF mode = "SORT" THEN ~ should_keep(langs, keep_langs)
                                  ELSE allow_back(langs, keep_langs)
              /\ entries' = entries \cup
                    {Entry(f, langs, IF mode = "SORT" THEN "MOVE" ELSE "RESTORE", dest, f)}
              /\ counts' = IF mode = "SORT" THEN [counts EXCEPT !.moved = @ + 1] ELSE counts
              /\ dirs' = ensure_parent_dir(dest)
    /\ pc' = "crashed"
    /\ UNCHANGED << files, runs, args, mode, keep_langs, walkvars, folder_lang_counts,
                    total_counts, sstack, removed, rm_errors, log_written, files0, dirs0, prev,
                    decidevars >>

\* A faulty variant of Labels: a file without tags counts nowhere.
LabelsDropUnknown(langs) == langs

\* do_langs_report: the counters a file with the tag set langs increments
Labels(langs) == IF langs = {} THEN {"unknown"} ELSE langs

(***************************************************************************)
(* do_langs_report: one iteration of the loop                              *)
(***************************************************************************)
LangsFile ==
    /\ pc = "walk"
    /\ mode = "LANGS"
    /\ \E f \in pending :
          LET folder_bucket == IF Len(f.dir) > 0 THEN f.dir[1] ELSE ""
              langs == detect_languages(f.stem)
              labels == Labels(langs)
          IN  /\ Yields(f, FALSE)
              /\ pending' = pending \ {f}
              /\ folder_lang_counts' =
                    IncAll(folder_lang_counts, { << folder_bucket, l >> : l \in labels })
              /\ total_counts' = IncAll(total_counts, labels)
              /\ entries' = entries \cup {Entry(f, langs, "COUNT", f, f)}
    /\ UNCHANGED << fsvars, runs, pc, args, mode, keep_langs, frames, counts, sstack,
                    removed, rm_errors, log_written, files0, dirs0, prev, decidevars >>

\* The walk is exhausted: the mode function appends its summary and returns.
WalkEnd ==
    /\ pc = "walk"
    /\ pending = {}
    /\ frames = << >>
    /\ pc' = "after"
    /\ UNCHANGED << fsvars, runs, args, mode, keep_langs, walkvars, entries, counts,
                    folder_lang_counts, total_counts, sstack, removed, rm_errors, log_written,
                    files0, dirs0, prev, decidevars >>

(***************************************************************************)
(* cleanup_empty_dirs: os.walk(root, topdown=False).  A directory's        *)
(* listing is taken when the walk enters it; the directory is yielded,     *)
(* with that listing, after its subdirectories have been walked.           *)
(***************************************************************************)
SweepFrame(d) ==
    [dirpath |-> d, dirnames |-> SubdirsOf(d), filenames |-> FilesIn(d),
     todo |-> SubdirsOf(d)]

\* A faulty variant of CleanupRuns: the sweep does not ask for --move.
CleanupRunsDryToo ==
    /\ mode = "REMERGE"
    /\ args.cleanup
    /\ MovedRoot \in dirs

\* main(): after the mode function, the cleanup gating and the log.
CleanupRuns ==
    /\ mode = "REMERGE"
    /\ args.cleanup
    /\ MovedRoot \in dirs
    /\ args.move

AfterRun ==
    /\ pc = "after"
    /\ IF CleanupRuns
       THEN /\ pc' = "sweep"
            /\ sstack' = << SweepFrame(MovedRoot) >>
            /\ UNCHANGED log_written
       ELSE /\ pc' = "done"
            /\ log_written' = TRUE
            /\ UNCHANGED sstack
    /\ UNCHANGED << fsvars, runs, args, mode, keep_langs, walkvars, entries, counts,
                    folder_lang_counts, total_counts, removed, rm_errors, files0, dirs0, prev,
                    decidevars >>

SweepDescend ==
    /\ pc = "sweep"
    /\ sstack # << >>
    /\ \E d \in Head(sstack).todo :
          LET top == [Head(sstack) EXCEPT !.todo = @ \ {d}]
          IN  sstack' = IF d \in dirs
                        THEN << SweepFrame(d), top >> \o Tail(sstack)
                        ELSE << top >> \o Tail(sstack)
    /\ UNCHANGED << fsvars, runs, pc, args, mode, keep_langs, walkvars, entries, counts,
                    folder_lang_counts, total_counts, removed, rm_errors, log_written, files0,
                    dirs0, prev, decidevars >>

\* "if not dirnames and not filenames", on the yielded listing
ListedEmpty(fr) == fr.dirnames = {} /\ fr.filenames = {}

\* os.rmdir succeeds only on a directory that holds nothing
RmdirCan(d) == SubdirsOf(d) = {} /\ FilesIn(d) = {}

\* The yielded directory is not listed empty: it is left alone.
SweepLeave ==
    /\ pc = "sweep"
    /\ sstack # << >>
    /\ Head(sstack).todo = {}
    /\ ~ ListedEmpty(Head(sstack))
    /\ sstack' = Tail(sstack)
    /\ UNCHANGED << fsvars, runs, pc, args, mode, keep_langs, walkvars, entries, counts,
                    folder_lang_counts, total_counts, removed, rm_errors, log_written, files0,
                    dirs0, prev, decidevars >>

\* A faulty variant of RemovedAfter: the path is appended before os.rmdir.
RemovedAlways(d, ok) == Append(removed, d)

\* The path is appended to the returned list after os.rmdir has succeeded.
RemovedAfter(d, ok) == IF ok THEN Append(removed, d) ELSE removed

SweepRemove ==
    /\ pc = "sweep"
    /\ sstack # << >>
    /\ Head(sstack).todo = {}
    /\ ListedEmpty(Head(sstack))
    /\ LET d == Head(sstack).dirpath
       IN  /\ d \in dirs
           /\ RmdirCan(d)
           /\ dirs' = dirs \ {d}
           /\ removed' = RemovedAfter(d, TRUE)
    /\ sstack' = Tail(sstack)
    /\ UNCHANGED << files, rm_errors, runs, pc, args, mode, keep_langs, walkvars, entries, counts,
                    folder_lang_counts, total_counts, log_written, files0, dirs0, prev,
                    decidevars >>

\* os.rmdir raises (the directory is not empty, or a permission): swallowed.
SweepRmdirFails ==
    /\ pc = "sweep"
    /\ sstack # << >>
    /\ Head(sstack).todo = {}
    /\ ListedEmpty(Head(sstack))
    /\ removed' = RemovedAfter(Head(sstack).dirpath, FALSE)
    /\ rm_errors' = Append(rm_errors, [dirpath |-> Head(sstack).dirpath,
                                       removed_before |-> Len(removed)])
    /\ sstack' = Tail(sstack)
    /\ UNCHANGED << fsvars, runs, pc, args, mode, keep_langs, walkvars, entries, counts,
                    folder_lang_counts, total_counts, log_written, files0, dirs0, prev,
                    decidevars >>

\* cleanup_empty_dirs returns; main() writes the log.
SweepEnd ==
    /\ pc = "sweep"
    /\ sstack = << >>
    /\ pc' = "done"
    /\ log_written' = TRUE
    /\ UNCHANGED << fsvars, runs, args, mode, keep_langs, walkvars, entries, counts,
                    folder_lang_counts, total_counts, sstack, removed, rm_errors, files0, dirs0,
                    prev, decidevars >>

Next ==
    \/ \E a \in ArgSpace : Start(a)
    \/ ScanDir
    \/ SkipFile
    \/ SortFile
    \/ RemergeFile
    \/ MoveRaises
    \/ LangsFile
    \/ WalkEnd
    \/ AfterRun
    \/ SweepDescend
    \/ SweepLeave
    \/ SweepRemove
    \/ SweepRmdirFails
    \/ SweepEnd

Spec == Init /\ [][Next]_vars

(***************************************************************************)
(* The decision rules on their own: the inputs are drawn from the subsets  *)
(* of DecideTags, and each rule is applied to them.                        *)
(***************************************************************************)
InitDecide ==
    /\ files = EmptyCounter
    /\ dirs = { << >> }
    /\ runs = 0
    /\ pc = "idle"
    /\ args = NoArgs
    /\ mode = "NONE"
    /\ keep_langs = {}
    /\ frames = << >>
    /\ pending = {}
    /\ entries = {}
    /\ counts = ZeroCounts
    /\ folder_lang_counts = EmptyCounter
    /\ total_counts = EmptyCounter
    /\ sstack = << >>
    /\ removed = << >>
    /\ rm_errors = << >>
    /\ log_written = FALSE
    /\ files0 = files
    /\ dirs0 = dirs
    /\ prev = NoPrev
    /\ d_tags \in SUBSET DecideTags
    /\ d_keep \in SUBSET DecideTags
    /\ d_out = "none"
    /\ d_stem = << >>

mainvars == << files, dirs, runs, pc, args, mode, keep_langs, frames, pending, entries,
               counts, folder_lang_counts, total_counts, sstack, removed, rm_errors,
               log_written, files0, dirs0, prev >>

DecideSort ==
    /\ d_out' = IF should_keep(d_tags, d_keep) THEN "KEEP" ELSE "MOVE"
    /\ UNCHANGED << mainvars, d_tags, d_keep, d_stem >>

DecideRemerge ==
    /\ d_out' = IF allow_back(d_tags, d_keep) THEN "RESTORE" ELSE "SKIP"
    /\ UNCHANGED << mainvars, d_tags, d_keep, d_stem >>

NextDecide == DecideSort \/ DecideRemerge

SpecDecide == InitDecide /\ [][NextDecide]_vars

(***************************************************************************)
(* detect_languages on its own: the stem is any sequence of at most        *)
(* MaxStem of the StemWords.                                               *)
(***************************************************************************)
InitDetect ==
    /\ files = EmptyCounter
    /\ dirs = { << >> }
    /\ runs = 0
    /\ pc = "idle"
    /\ args = NoArgs
    /\ mode = "NONE"
    /\ keep_langs = {}
    /\ frames = << >>
    /\ pending = {}
    /\ entries = {}
    /\ counts = ZeroCounts
    /\ folder_lang_counts = EmptyCounter
    /\ total_counts = EmptyCounter
    /\ sstack = << >>
    /\ removed = << >>
    /\ rm_errors = << >>
    /\ log_written = FALSE
    /\ files0 = files
    /\ dirs0 = dirs
    /\ prev = NoPrev
    /\ d_tags = {}
    /\ d_keep = {}
    /\ d_out = "none"
    /\ d_stem \in UNION { [1..n -> StemWords] : n \in 0..MaxStem }

Detect ==
    /\ d_out = "none"
    /\ d_tags' = detect_languages(d_stem)
    /\ d_out' = "DETECTED"
    /\ UNCHANGED << mainvars, d_keep, d_stem >>

NextDetect == Detect

SpecDetect == InitDetect /\ [][NextDetect]_vars

(***************************************************************************)
(* The scenario tree: four releases of one game in the root, named by      *)
(* region or language as release names are, alone or beside one more file  *)
(* in a folder.                                                            *)
(***************************************************************************)
Scenario ==
    << [dir |-> << >>, stem |-> <<"Game", "USA">>,          ext |-> ".bin"],
       [dir |-> << >>, stem |-> <<"Game", "Europe", "En">>, ext |-> ".bin"],
       [dir |-> << >>, stem |-> <<"Game", "Japan">>,        ext |-> ".bin"],
       [dir |-> << >>, stem |-> <<"Game", "Multi5">>,       ext |-> ".bin"] >>

InitScenario ==
    /\ \E extra \in { << >>, << Universe[2] >> } : files = Scenario \o extra
    /\ dirs = UNION { Ancestors(files[i].dir) : i \in DOMAIN files } \cup { << >> }
    /\ runs = 0
    /\ pc = "idle"
    /\ args = NoArgs
    /\ mode = "NONE"
    /\ keep_langs = {}
    /\ frames = << >>
    /\ pending = {}
    /\ entries = {}
    /\ counts = ZeroCounts
    /\ folder_lang_counts = EmptyCounter
    /\ total_counts = EmptyCounter
    /\ sstack = << >>
    /\ removed = << >>
    /\ rm_errors = << >>
    /\ log_written = FALSE
    /\ files0 = files
    /\ dirs0 = dirs
    /\ prev = NoPrev
    /\ d_tags = {}
    /\ d_keep = {}
    /\ d_out = "none"
    /\ d_stem = << >>

SpecScenario == InitScenario /\ [][Next]_vars

(***************************************************************************)
(* Properties                                                              *)
(***************************************************************************)
Walked == pc \in {"after", "sweep", "done"}

\* C4: the sort decision is KEEP when the detected tag set is empty, KEEP
\* when it is non-empty and meets the keep set, and MOVE otherwise, for every
\* tag set and every keep set, the empty one included.
C4_SortDecisionRule ==
    d_out \in {"KEEP", "MOVE"} =>
        (d_out = "KEEP" <=> (d_tags = {} \/ d_tags \cap d_keep # {}))

C4_Witness ==
    /\ d_tags = {}
    /\ d_keep = {}
    /\ d_out = "KEEP"

\* C5: a Remerge run with the explicitly empty keep list decides RESTORE for
\* every ROM file under the moved-aside subtree, whatever its tags; none is
\* skipped.
C5_RestoreAll ==
    (mode = "REMERGE" /\ args.keep = << >>) =>
        /\ \A e \in entries : e.dec = "RESTORE"
        /\ counts.skipped = 0
        /\ Walked =>
              \A i \in DOMAIN files0 :
                 (IsRom(files0[i]) /\ UnderMoved(files0[i])) =>
                     \E e \in entries : e.rel = files0[i] /\ e.dec = "RESTORE"

C5_Witness ==
    /\ mode = "REMERGE"
    /\ args.keep = << >>
    /\ pc = "done"
    /\ \E e \in entries : e.langs = {}
    /\ \E e \in entries : Cardinality(e.langs) = 1
    /\ \E e \in entries : Cardinality(e.langs) > 1

\* C6: under a non-empty keep set K, Remerge restores a file with tags T
\* exactly when T meets K, and a file with no tags exactly when "en" is in K.
C6_SelectiveRemerge ==
    (mode = "REMERGE" /\ keep_langs # {}) =>
        \A e \in entries :
            (e.dec = "RESTORE") <=>
                (IF e.langs # {} THEN e.langs \cap keep_langs # {} ELSE "en" \in keep_langs)

C6_Witness ==
    /\ mode = "REMERGE"
    /\ keep_langs = {"jp"}
    /\ pc = "done"
    /\ \E e \in entries : e.langs = {} /\ e.dec = "SKIP"
    /\ \E e \in entries : e.langs = {"jp"} /\ e.dec = "RESTORE"

\* The other half of C6's case: keep {en} restores an untagged file.
UntaggedRestoredUnderEn ==
    /\ mode = "REMERGE"
    /\ keep_langs = {"en"}
    /\ \E e \in entries : e.langs = {} /\ e.dec = "RESTORE"

PrevWasLiveSort == prev.mode = "SORT" /\ prev.move /\ prev.ok

\* C1: after a completed live Sort, an immediately following live Sort with
\* the same keep set decides MOVE for no file and leaves every path as it was.
C1_SortIdempotent ==
    (mode = "SORT" /\ args.move /\ PrevWasLiveSort /\ prev.keep = keep_langs) =>
        /\ counts.moved = 0
        /\ \A e \in entries : e.dec = "KEEP"
        /\ files = files0

C1_Witness ==
    /\ mode = "SORT" /\ args.move /\ PrevWasLiveSort /\ prev.keep = keep_langs
    /\ pc = "done"
    /\ entries # {}
    /\ \E i \in DOMAIN files0 : prev.files[i] # files0[i]

\* C2: from a tree with nothing under the moved-aside directory, a live Sort
\* followed by a live restore-all Remerge leaves every file at the path it had
\* before the Sort.
C2_RoundTrip ==
    ( /\ mode = "REMERGE" /\ args.move /\ args.keep = << >> /\ Walked
      /\ PrevWasLiveSort
      /\ \A i \in DOMAIN prev.files : ~ UnderMoved(prev.files[i]) ) =>
        /\ DOMAIN files = DOMAIN prev.files
        /\ \A i \in DOMAIN files : files[i] = prev.files[i]

C2_Witness ==
    /\ mode = "REMERGE" /\ args.move /\ args.keep = << >> /\ pc = "done"
    /\ PrevWasLiveSort
    /\ \A i \in DOMAIN prev.files : ~ UnderMoved(prev.files[i])
    /\ \E i \in DOMAIN files0 : \E j \in DOMAIN files0 :
          /\ i # j
          /\ files0[i] # prev.files[i] /\ files0[j] # prev.files[j]
          /\ files0[i].dir # files0[j].dir

PlannedDest(p) ==
    IF mode = "SORT" THEN [p EXCEPT !.dir = MovedRoot \o p.dir]
                     ELSE [p EXCEPT !.dir = Tail(p.dir)]

WithCounter(p, n) == [p EXCEPT !.stem = p.stem \o << ToString(n) >>]

\* C3: no step destroys a file, and a file that changes its path arrives at a
\* path that was free: the planned path, or the planned name with the first
\* counter n >= 1 whose name was free, the planned path and every smaller
\* counter being taken.  No two files ever share a path.
C3_NoOverwrite ==
    [][ /\ DOMAIN files \subseteq DOMAIN files'
        /\ \A i \in DOMAIN files : \A j \in DOMAIN files :
              (i # j) => files'[i] # files'[j]
        /\ \A i \in DOMAIN files :
              (files'[i] # files[i]) =>
                  /\ ~ Exists(files'[i])
                  /\ LET dest == PlannedDest(files[i])
                     IN  \/ files'[i] = dest
                         \/ \E n \in 1..Cardinality(DOMAIN files) :
                               /\ files'[i] = WithCounter(dest, n)
                               /\ Exists(dest)
                               /\ \A m \in 1..(n - 1) : Exists(WithCounter(dest, m))
      ]_vars

C3_Witness ==
    \E e \in entries :
        /\ e.dec \in {"MOVE", "RESTORE"}
        /\ e.final = WithCounter(e.dest, 1)
        /\ Exists(e.final)
        /\ Exists(e.dest)
        /\ DOMAIN files = DOMAIN files0

SweepRan ==
    /\ pc = "done"
    /\ mode = "REMERGE" /\ args.cleanup /\ args.move
    /\ MovedRoot \in dirs0

\* C7: after a live Remerge that leaves no file under the moved-aside root,
\* one run of the sweeper (no removal failing) removes every directory under
\* the moved-aside root and the root itself.
C7_CleanupComplete ==
    ( /\ SweepRan
      /\ rm_errors = << >>
      /\ \A p \in Range(files) : ~ UnderMoved(p) ) =>
        \A d \in dirs : ~ IsPrefix(MovedRoot, d)

\* What the sweeper does remove in that case: the directories that were
\* already without entries when the sweep listed them.
C7_LeavesOnly ==
    ( /\ SweepRan
      /\ rm_errors = << >>
      /\ \A p \in Range(files) : ~ UnderMoved(p) ) =>
        \A d \in dirs : IsPrefix(MovedRoot, d) => SubdirsOf(d) \cup
                            { r \in Range(removed) : Len(r) = Len(d) + 1 /\ IsPrefix(d, r) } # {}

\* The directory had no entry when the sweep began (the sweep creates nothing).
EmptyWhenSwept(d) ==
    /\ FilesIn(d) = {}
    /\ ~ \E e \in dirs \cup Range(removed) : Len(e) = Len(d) + 1 /\ IsPrefix(d, e)

\* C8: the sweeper removes only directories that hold no file and no
\* subdirectory at that moment, removes no file, lists as removed only
\* directories that are gone, and goes on after a failed removal: when it
\* ends, every directory that had no entry and is still there is one whose
\* removal failed.
C8_SweepSafe ==
    /\ [](\A k \in 1..Len(removed) : removed[k] \notin dirs)
    /\ [](SweepRan =>
            \A d \in dirs :
                (IsPrefix(MovedRoot, d) /\ EmptyWhenSwept(d)) =>
                    \E k \in 1..Len(rm_errors) : rm_errors[k].dirpath = d)
    /\ [][ (pc = "sweep") =>
              /\ files' = files
              /\ dirs' \subseteq dirs
              /\ \A d \in dirs \ dirs' : FilesIn(d) = {} /\ SubdirsOf(d) = {}
         ]_vars

C8_Witness ==
    /\ SweepRan
    /\ \E k \in 1..Len(rm_errors) : rm_errors[k].removed_before < Len(removed)
    /\ \E d \in dirs : IsPrefix(MovedRoot, d) /\ FilesIn(d) # {}

\* C9: a Sort or Report pass yields no file under the moved-aside subtree and
\* moves none of them; a Remerge pass yields only files under it.
C9_Enumeration ==
    /\ mode \in {"SORT", "LANGS"} =>
          /\ \A e \in entries : ~ UnderMoved(e.rel)
          /\ \A i \in DOMAIN files0 :
                UnderMoved(files0[i]) => (i \in DOMAIN files /\ files[i] = files0[i])
    /\ mode = "REMERGE" => \A e \in entries : UnderMoved(e.rel)

C9_Witness ==
    /\ mode = "SORT" /\ args.move /\ pc = "done"
    /\ prev.mode = "SORT" /\ prev.move
    /\ \E e \in entries : e.dec = "MOVE"
    /\ \E i \in DOMAIN files0 : IsRom(files0[i]) /\ UnderMoved(files0[i])
                                  /\ ~ UnderMoved(prev.files[i])

\* C10: without --move, no file and no directory of the tree is moved,
\* created or removed by a Sort or a Remerge, with or without --cleanup.
C10_DryRun ==
    (~ args.move) => (files = files0 /\ dirs = dirs0)

C10_Witness ==
    /\ pc = "done" /\ ~ args.move
    /\ mode = "REMERGE" /\ args.cleanup
    /\ counts.back > 0
    /\ \E d \in dirs : IsPrefix(MovedRoot, d) /\ FilesIn(d) = {} /\ SubdirsOf(d) = {}

\* The Sort half of C10's case: a dry run that would move a file.
DrySortWouldMove ==
    /\ pc = "done" /\ ~ args.move /\ mode = "SORT" /\ counts.moved > 0

\* C11: a Remerge started when the moved-aside directory does not exist (dry
\* or live, any keep set) walks nothing and fails nothing: it decides on no
\* file, counts 0 restored and 0 skipped, and leaves every file and every
\* directory as it was; the directory is not created.
C11_RemergeNoMovedDir ==
    (mode = "REMERGE" /\ MovedRoot \notin dirs0) =>
        /\ pc \in {"after", "done"}
        /\ entries = {}
        /\ counts = ZeroCounts
        /\ files = files0
        /\ dirs = dirs0

C11_Witness ==
    /\ mode = "REMERGE" /\ MovedRoot \notin dirs0
    /\ args.move /\ args.cleanup
    /\ pc = "done" /\ log_written
    /\ \E p \in Range(files) : IsRom(p)

Tally(counter, k) == IF k \in DOMAIN counter THEN counter[k] ELSE 0

RECURSIVE SumCounter(_)
SumCounter(counter) ==
    IF DOMAIN counter = {} THEN 0
    ELSE LET k == CHOOSE x \in DOMAIN counter : TRUE
         IN  counter[k] + SumCounter([x \in (DOMAIN counter) \ {k} |-> counter[x]])

BucketOf(f) == IF Len(f.dir) > 0 THEN f.dir[1] ELSE ""

Counted(e, l) == IF l = "unknown" THEN e.langs = {} ELSE l \in e.langs

\* C12: in a Report pass every enumerated ROM file without tags adds one to
\* "unknown" and to nothing else, and a file with tags adds one to each of its
\* tags and to nothing else, in the bucket of its top-level folder and in the
\* totals; the counters sum to at least the number of files, every ROM file
\* outside the moved-aside subtree is counted, and no file is moved.
C12_ReportCounting ==
    (mode = "LANGS") =>
        /\ files = files0 /\ dirs = dirs0
        /\ \A e \in entries : e.dec = "COUNT"
        /\ DOMAIN total_counts \subseteq LangCodes \cup {"unknown"}
        /\ \A l \in LangCodes \cup {"unknown"} :
              /\ Tally(total_counts, l) = Cardinality({ e \in entries : Counted(e, l) })
              /\ \A b \in { BucketOf(e.rel) : e \in entries } :
                    Tally(folder_lang_counts, << b, l >>) =
                        Cardinality({ e \in entries : BucketOf(e.rel) = b /\ Counted(e, l) })
        /\ \A k \in DOMAIN folder_lang_counts :
              \E e \in entries : BucketOf(e.rel) = k[1] /\ Counted(e, k[2])
        /\ SumCounter(total_counts) >= Cardinality(entries)
        /\ Walked =>
              \A p \in Range(files0) :
                  (IsRom(p) /\ ~ UnderMoved(p)) => \E e \in entries : e.rel = p

C12_Witness ==
    /\ mode = "LANGS" /\ pc = "done"
    /\ \E e \in entries : e.langs = {} /\ BucketOf(e.rel) = "A"
    /\ Tally(total_counts, "unknown") = 1
    /\ Tally(folder_lang_counts, << "A", "unknown" >>) = 1
    /\ \E e \in entries : Cardinality(e.langs) > 1
    /\ SumCounter(total_counts) > Cardinality(entries)

\* The invocation that ended at a raising move does nothing more: the next
\* step, if any, is the start of another invocation.
BatchAborted == [][ (pc = "crashed") => (runs' = runs + 1) ]_vars

\* C13: when a live move raises during a Sort or a Remerge, the files not yet
\* processed are left alone, and the report with the decisions made so far is
\* written all the same.
C13_PartialReport ==
    /\ BatchAborted
    /\ []((pc = "crashed") => log_written)

\* What the code does on that path: the batch is aborted and no log is
\* written.
C13_AbortsWithoutLog ==
    /\ BatchAborted
    /\ []((pc = "crashed") => ~ log_written)

CrashedMidBatch ==
    /\ pc = "crashed"
    /\ Cardinality(entries) > 1
    /\ pending # {}

ScenarioDecision(k, dec, langs) ==
    \E e \in entries : e.rel = Scenario[k] /\ e.dec = dec /\ e.langs = langs

HasScenario(fs) == \A k \in 1..Len(Scenario) : k \in DOMAIN fs /\ fs[k] = Scenario[k]

\* C14: with the keep set {en}, a dry-run Sort over the four scenario files
\* (USA; Europe, En; Japan; Multi5) decides KEEP for the first two, MOVE with
\* tags exactly {jp} for the third and MOVE with tags exactly {multi} for the
\* fourth; when they are the whole tree it counts two kept and two to move.
C14_Scenario ==
    ( /\ mode = "SORT" /\ ~ args.move /\ keep_langs = {"en"}
      /\ HasScenario(files0)
      /\ Walked ) =>
        /\ ScenarioDecision(1, "KEEP", {"en"})
        /\ ScenarioDecision(2, "KEEP", {"en"})
        /\ ScenarioDecision(3, "MOVE", {"jp"})
        /\ ScenarioDecision(4, "MOVE", {"multi"})
        /\ \A e \in entries : \A k \in 1..Len(Scenario) :
              (e.rel = Scenario[k]) =>
                  (e.dec = (IF k \in {1, 2} THEN "KEEP" ELSE "MOVE") /\ e.final = e.rel)
        /\ (files0 = Scenario) =>
              (Cardinality(entries) = 4 /\ counts.kept = 2 /\ counts.moved = 2)

C14_Witness ==
    /\ mode = "SORT" /\ ~ args.move /\ keep_langs = {"en"}
    /\ files0 = Scenario
    /\ pc = "done"
    /\ ScenarioDecision(2, "KEEP", {"en"})
    /\ ScenarioDecision(4, "MOVE", {"multi"})

PrevWasLiveRemerge == prev.mode = "REMERGE" /\ prev.move /\ prev.ok

\* C15: after a completed live Remerge (with or without cleanup), an
\* immediately following live Remerge with the same keep set restores no file
\* and leaves every path as it was, whatever the moved-aside subtree held.
C15_RemergeRerun ==
    (mode = "REMERGE" /\ args.move /\ PrevWasLiveRemerge /\ prev.keep = keep_langs) =>
        /\ counts.back = 0
        /\ \A e \in entries : e.dec = "SKIP"
        /\ files = files0

\* The file lies under a "Moved ROMS" folder inside the moved-aside root.
NestedMoved(f) == IsPrefix(<< MovedName, MovedName >>, f.dir)

\* The second Remerge finds nothing to restore when the first one started from
\* a subtree without a "Moved ROMS" folder of its own.
C15_RerunWithoutNested ==
    ( /\ mode = "REMERGE" /\ args.move /\ PrevWasLiveRemerge /\ prev.keep = keep_langs
      /\ \A p \in Range(prev.files) : ~ NestedMoved(p) ) =>
        /\ counts.back = 0
        /\ \A e \in entries : e.dec = "SKIP"
        /\ files = files0

RerunAfterRestore ==
    /\ mode = "REMERGE" /\ args.move /\ PrevWasLiveRemerge /\ prev.keep = keep_langs
    /\ pc = "done"
    /\ \A p \in Range(prev.files) : ~ NestedMoved(p)
    /\ \E i \in DOMAIN files0 : files0[i] # prev.files[i]
    /\ entries # {}

\* The decisions each operation makes, and no other operation does.
DecisionsOf(m) ==
    CASE m = "LANGS" -> {"COUNT"}
      [] m = "REMERGE" -> {"RESTORE", "SKIP"}
      [] m = "SORT" -> {"KEEP", "MOVE"}
      [] OTHER -> {}

\* C16: in every invocation exactly one operation runs: Report when --langs is
\* given (also beside --remerge), Remerge when --remerge alone is given, Sort
\* when neither is; the decisions, the counters and the effects on the tree are
\* those of that operation only.
C16_ModeSelection ==
    (mode # "NONE") =>
        /\ args.langs => mode = "LANGS"
        /\ (args.remerge /\ ~ args.langs) => mode = "REMERGE"
        /\ (~ args.remerge /\ ~ args.langs) => mode = "SORT"
        /\ \A e \in entries : e.dec \in DecisionsOf(mode)
        /\ (mode = "LANGS") =>
              (counts = ZeroCounts /\ files = files0 /\ dirs = dirs0 /\ pc # "sweep")
        /\ (mode = "REMERGE") =>
              /\ counts.kept = 0 /\ counts.moved = 0
              /\ total_counts = EmptyCounter /\ folder_lang_counts = EmptyCounter
              /\ \A i \in DOMAIN files0 :
                    ~ UnderMoved(files0[i]) => (i \in DOMAIN files /\ files[i] = files0[i])
        /\ (mode = "SORT") =>
              /\ counts.back = 0 /\ counts.skipped = 0
              /\ total_counts = EmptyCounter /\ folder_lang_counts = EmptyCounter
              /\ pc # "sweep"
              /\ \A i \in DOMAIN files0 :
                    UnderMoved(files0[i]) => (i \in DOMAIN files /\ files[i] = files0[i])

C16_Witness ==
    /\ args.langs /\ args.remerge /\ args.move /\ args.cleanup
    /\ pc = "done"
    /\ entries # {}
    /\ \E p \in Range(files) : IsRom(p) /\ UnderMoved(p)

CleanupAsked == mode = "REMERGE" /\ args.cleanup /\ args.move

\* C17: a directory is removed only in a Remerge invocation with --cleanup and
\* --move whose moved-aside directory exists, and only by the sweep, which
\* starts after the Remerge walk has ended and during which no file is decided
\* on or moved; in every other invocation (Sort, Report, dry-run Remerge,
\* Remerge without --cleanup) no directory is removed.
C17_CleanupGating ==
    /\ [][ (dirs \ dirs' # {}) =>
              /\ CleanupAsked
              /\ MovedRoot \in dirs
              /\ pc = "sweep"
              /\ pending = {} /\ frames = << >>
         ]_vars
    /\ [][ (pc' = "sweep") =>
              /\ pc \in {"after", "sweep"}
              /\ entries' = entries /\ counts' = counts /\ files' = files
         ]_vars
    /\ []((pc = "sweep") => CleanupAsked)
    /\ []((~ CleanupAsked) => (dirs0 \subseteq dirs /\ removed = << >>))

C17_Witness ==
    /\ pc = "done"
    /\ CleanupAsked
    /\ counts.back > 0
    /\ removed # << >>
    /\ dirs # dirs0

\* The other side of C17's case: a live Remerge without --cleanup that leaves
\* an emptied directory where it is.
NoCleanupLeavesEmptyDir ==
    /\ pc = "done"
    /\ mode = "REMERGE" /\ args.move /\ ~ args.cleanup
    /\ \E d \in dirs : IsPrefix(MovedRoot, d) /\ FilesIn(d) = {} /\ SubdirsOf(d) = {}

EuropeTokens == {"eur", "europe", "eu"}

EnglishTokens == {"en", "eng", "english"}

HasToken(stem, ws) == \E i \in 1..Len(stem) : Lower(stem[i]) \in ws

\* C18: a stem with a Europe token and an English token, in either order, is
\* tagged "en" and is not tagged "eu".
C18_EnglishSuppressesEu ==
    (d_out = "DETECTED" /\ HasToken(d_stem, EuropeTokens) /\ HasToken(d_stem, EnglishTokens)) =>
        ("en" \in d_tags /\ "eu" \notin d_tags)

\* What the pattern does: "eu" is left out exactly when an English token
\* comes after every Europe token of the stem; "en" is there whenever the
\* stem has an English token.
C18_SuppressedWhenEnglishFollows ==
    (d_out = "DETECTED") =>
        /\ HasToken(d_stem, EnglishTokens) => "en" \in d_tags
        /\ ("eu" \in d_tags) <=>
              \E i \in 1..Len(d_stem) :
                  /\ Lower(d_stem[i]) \in EuropeTokens
                  /\ \A j \in (i + 1)..Len(d_stem) : Lower(d_stem[j]) \notin EnglishTokens

EnglishAfterEurope ==
    /\ d_out = "DETECTED"
    /\ d_stem = << "Game", "Europe", "En" >>
    /\ d_tags = {"en"}

SortThenRemergeSameKeep ==
    /\ mode = "REMERGE"
    /\ PrevWasLiveSort
    /\ prev.keep = keep_langs /\ keep_langs # {}
    /\ \A p \in Range(prev.files) : ~ UnderMoved(p)

\* C19: from a tree with nothing under the moved-aside directory, after a live
\* Sort with a non-empty keep set K, a Remerge with the same K decides SKIP for
\* every file the Sort moved and restores none: each of them has a non-empty
\* tag set disjoint from K.
C19_SortRemergeDisjoint ==
    SortThenRemergeSameKeep =>
        /\ \A e \in entries :
              e.dec = "SKIP" /\ e.langs # {} /\ e.langs \cap keep_langs = {}
        /\ counts.back = 0
        /\ files = files0
        /\ Walked =>
              \A i \in DOMAIN files0 :
                  (files0[i] # prev.files[i]) =>
                      \E e \in entries : e.rel = files0[i] /\ e.dec = "SKIP"

C19_Witness ==
    /\ SortThenRemergeSameKeep
    /\ args.move
    /\ pc = "done"
    /\ \E i \in DOMAIN files0 : \E j \in DOMAIN files0 :
          /\ files0[i] # prev.files[i]
          /\ files0[j] = prev.files[j] /\ IsRom(files0[j])
    /\ counts.skipped > 0

LiveAfterDryRun ==
    /\ mode \in {"SORT", "REMERGE"}
    /\ args.move
    /\ pc = "done"
    /\ prev.mode = mode /\ ~ prev.move /\ prev.ok
    /\ prev.keep = keep_langs

\* C20: a completed live Sort (Remerge) makes the decisions and reports the
\* counts that a dry-run Sort (Remerge) with the same keep set made from the
\* same tree: no move of the live run changes which files are enumerated
\* later in that run or what is decided for them.
C20_DryRunPredictsLive ==
    LiveAfterDryRun =>
        /\ Decisions(entries) = prev.decisions
        /\ counts = prev.counts

\* The Sort half of C20, and the Remerge half for subtrees without a
\* "Moved ROMS" folder of their own.
C20_PredictsWithoutNested ==
    (LiveAfterDryRun /\ \A p \in Range(files0) : ~ NestedMoved(p)) =>
        /\ Decisions(entries) = prev.decisions
        /\ counts = prev.counts

LiveSortAfterDryRun ==
    /\ LiveAfterDryRun
    /\ mode = "SORT"
    /\ counts.moved > 1
    /\ files # files0

\* The file i changes its path in this step.
PathChanges(i) == i \in DOMAIN files' /\ files'[i] # files[i]

\* No decision line of the invocation says dec for the path p.
NotDecided(p, dec) == ~ \E e \in entries' : e.rel = p /\ e.dec = dec

SortFrame ==
    \A i \in DOMAIN files :
        (mode = "SORT" /\ PathChanges(i)) =>
            /\ ~ UnderMoved(files[i])
            /\ UnderMoved(files'[i])
            /\ NotDecided(files[i], "KEEP")

RemergeFrame ==
    \A i \in DOMAIN files :
        (mode = "REMERGE" /\ PathChanges(i)) =>
            /\ UnderMoved(files[i])
            /\ ~ UnderMoved(files'[i])
            /\ NotDecided(files[i], "SKIP")

\* C21: a live Sort changes the path of no file it decides to KEEP and of no
\* file under the moved-aside subtree, and every file it moves goes from
\* outside the subtree to inside it; a live Remerge changes the path of no
\* file it SKIPs and of no file outside the subtree, and every file it moves
\* goes from inside the subtree to outside it.
C21_Frame ==
    [][ SortFrame /\ RemergeFrame ]_vars

\* The Sort half of C21.
C21_SortFrame ==
    [][ SortFrame ]_vars

\* The Remerge half of C21 as the code has it: the file that moves was under
\* the subtree and was not skipped, and it arrives outside the subtree unless
\* it lay under a "Moved ROMS" folder inside the moved-aside root.
C21_RemergeFrameWithoutNested ==
    [][ \A i \in DOMAIN files :
            (mode = "REMERGE" /\ PathChanges(i)) =>
                /\ UnderMoved(files[i])
                /\ NotDecided(files[i], "SKIP")
                /\ UnderMoved(files'[i]) <=> NestedMoved(files[i])
      ]_vars

\* No step outside a Sort or a Remerge changes a path.
C21_OnlySortAndRemergeMove ==
    [][ (\E i \in DOMAIN files : PathChanges(i)) => mode \in {"SORT", "REMERGE"} ]_vars

BothDirectionsMoved ==
    /\ mode = "REMERGE" /\ args.move /\ pc = "done"
    /\ PrevWasLiveSort
    /\ counts.skipped > 0
    /\ \E i \in DOMAIN files0 :
          /\ ~ UnderMoved(prev.files[i]) /\ UnderMoved(files0[i])
          /\ ~ UnderMoved(files[i])
    /\ \E i \in DOMAIN files0 : prev.files[i] = files0[i] /\ IsRom(files0[i])

====
